---- MODULE Spec2Model ----
(***************************************************************************)
(* Regeneration controller of the aiuser cog: the regenerate button, the   *)
(* model-selection dropdown, the save/swap/restore of the shared context   *)
(* model and active client around a pipeline run, the endpoint client      *)
(* cache, the control timeout, the reaction ledger and the initial chat    *)
(* response that shares the process-wide active client.                    *)
(*                                                                         *)
(* Every await of the source is a suspension point: one action of the      *)
(* model runs from the resumption of one await to the next await that can  *)
(* let another task touch the shared state.                                *)
(***************************************************************************)
EXTENDS Integers, Sequences, FiniteSets, TLC

\* ---------------------------------------------------------------- bounds
MaxCalls == 2                      \* regeneration requests (button clicks)
MaxSeqCalls == 1                   \* requests handled one at a time
MaxDays == 2                       \* the clock runs from day 0 to day MaxDays
MaxReactions == 3                  \* reactions stored in the ledger
MaxClients == 3                    \* AsyncOpenAI objects one manager constructs
MaxTasks == 2                      \* concurrent tasks on the ledger or on one manager
MaxLen == 3                        \* characters of a pipeline output
MaxPatterns == 2                   \* expanded patterns of the removal list

Calls == 1..MaxCalls
ViewIds == 0..MaxCalls             \* view 0 is attached at delivery; call p builds view p
CogReg == MaxCalls + 1             \* registry id of cog.endpoint_manager

\* ------------------------------------------------------- program constants
MessageCeiling == 2000             \* len(new_content) > 2000
TruncateAt == 1950                 \* cleaned_response[:1950]
SendCeiling == 2000                \* send_response: len(response) >= 2000, response[i:i + 2000]

KnownEndpoints == {"openai", "openrouter"}

\* REACTION_SENTIMENT_MAP, with ASCII names standing for the emoji
ReactionSentimentMap ==
    [e \in {"thumbsup", "thumbsdown", "heart", "joy", "open_mouth", "cry",
            "rage", "thinking", "dart", "question"} |->
        CASE e = "thumbsup" -> "positive"
          [] e = "thumbsdown" -> "negative"
          [] e = "heart" -> "love"
          [] e = "joy" -> "funny"
          [] e = "open_mouth" -> "surprising"
          [] e = "cry" -> "sad"
          [] e = "rage" -> "angry"
          [] e = "thinking" -> "thoughtful"
          [] e = "dart" -> "accurate"
          [] e = "question" -> "confusing"]

\* ------------------------------------------------------------ input sets
\* ModelConfig records; the second name is 42 characters long.
ModelBee == [name |-> "Bee", model |-> "gpt-b", endpoint |-> "openai", default |-> TRUE]
ModelCee == [name |-> "Cee-long-display-name-of-forty-two-chars-x", model |-> "or/c",
             endpoint |-> "openrouter", default |-> FALSE]
NoModel == [name |-> "", model |-> "", endpoint |-> "", default |-> FALSE]

ConfigChoices == {<<>>, <<ModelBee, ModelCee>>}
KeyChoices == {KnownEndpoints, {"openai"}}

InitModel == "gpt-a"               \* messages_list.model when the response was delivered
\* add_subtle_regeneration: the selection of the first control when no
\* configured alternative matches the context's model
CurrentModelInfo == [name |-> "Current (" \o InitModel \o ")", model |-> InitModel,
                     endpoint |-> "current", default |-> FALSE]
ChatInitModel == "gpt-z"           \* model of the unrelated chat context

CleanedLens == {0, 40, 1995}       \* lengths of the cleaned text; 0 is the empty text
InitContent == [body |-> 40, ellipsis |-> FALSE, by |-> ""]

BotId == "bot"
Actors == {"alice", BotId}
Emojis == {"thumbsup", "thumbsdown", "wave"}
TrackedId == "m1"
MessageIds == {TrackedId, "m2"}
GuildId == "guild"

\* -------------------------------------------------------------- clients
MainClient == [reg |-> CogReg, ep |-> "main"]   \* cog.openai_client as the cog set it up
NoClient == [reg |-> CogReg, ep |-> ""]         \* None

VARIABLES
    regenModels,    \* config.regen_models: sequence of ModelConfig
    hasKey,         \* endpoints whose api_key the shared token store holds
    cache,          \* EndpointManager.clients of each view's manager: view -> set of endpoints
    cogCache,       \* EndpointManager.clients of cog.endpoint_manager
    viewState,      \* view -> "none" | "built" | "live" | "timedout"
    viewSel,        \* SubtleRegenerationView.selected_model_info
    viewDisabled,   \* item.disabled of the view's button
    msgView,        \* the view attached to the original message
    msgContent,     \* content of the original message
    ctxModel,       \* messages_list.model of the shared MessageContext
    activeClient,   \* cog.openai_client
    call,           \* the locals of each regeneration request, see IdleCall
    last,           \* the request that returned latest, see NoLast
    requested,      \* the model ids the requests so far switched the context to
    chatPc,         \* position of create_chat_response
    chatModel,      \* messages_list.model of the chat context
    chatSaved,      \* original_client of create_chat_response
    chatRuns,       \* LLMPipeline.run() invocations of create_chat_response
    tracked,        \* cog.tracked_messages
    ratings,        \* config.response_ratings: isDict, and its items when a dict
    now,            \* datetime.now().timestamp()
    occurred,       \* the (message, actor, emoji) of the reactions written to the ledger
    op,             \* the ledger operation of the latest step, with its result
    adminOp,        \* the administrative command of the latest step, with its replies
    clients,        \* EndpointManager.clients of one manager: endpoint -> client
    made,           \* AsyncOpenAI objects that manager has constructed; client k is the k-th
    closedClients,  \* the clients whose close() has run
    regOp,          \* the call on that manager of the latest step, with its result
    resp,           \* the create_chat_response call of the latest step, see NoResp
    cleanOp,        \* the remove_patterns_from_response call, see CleanInputs
    logTask,        \* the locals of each log_rating or cleanup_old_ratings task
    getTask         \* the locals of each get_client task

envVars == <<regenModels, hasKey>>
viewVars == <<viewState, viewSel, viewDisabled>>
msgVars == <<msgView, msgContent>>
sharedVars == <<ctxModel, activeClient>>
histVars == <<last, requested>>
regenVars == <<viewVars, msgVars, sharedVars, call, histVars>>
chatVars == <<chatPc, chatModel, chatSaved, chatRuns>>
ledgerVars == <<tracked, ratings, now, occurred, op>>
soloVars == <<adminOp, clients, made, closedClients, regOp, resp>>
taskVars == <<cleanOp, logTask, getTask>>
vars == <<regenVars, envVars, chatVars, ledgerVars, cache, cogCache, soloVars, taskVars>>

\* The locals of a request: pc is its position, view the control whose button
\* handles it (parent_view), chosen is model_config, options the dropdown's
\* available_models, respDone is interaction.response.is_done(), savedModel and
\* savedClient are original_model and original_client, newContent is new_content,
\* entry the shared state at the entry of _regenerate_with_model.
\* notices are the messages sent to the requester so far, runs the number of
\* LLMPipeline.run() invocations, edits the number of original_message.edit() calls.
\* model, client and content when _regenerate_with_model is entered
NoSnap == [model |-> "", client |-> NoClient, content |-> InitContent]
IdleCall == [pc |-> "idle", view |-> 0, chosen |-> NoModel, options |-> <<>>,
             respDone |-> FALSE, savedModel |-> "", savedClient |-> NoClient,
             newContent |-> InitContent, notices |-> <<>>, runs |-> 0, edits |-> 0,
             entry |-> NoSnap]
\* A handler that returned: its locals are gone.
DoneCall == [IdleCall EXCEPT !.pc = "done"]
\* What the latest returned handler did: how it ended, the messages it sent to
\* the requester, its pipeline invocations and its message edits.
NoLast == [outcome |-> "", notices |-> <<>>, runs |-> 0, edits |-> 0]

\* ---------------------------------------------------------------- helpers
Min(a, b) == IF a < b THEN a ELSE b

\* model_attribution = f"\n\n*- {model_config['name']}*" (one character per code point)
Attribution(name) == "\n\n*- " \o name \o "*"

\* Length of a message content [body, ellipsis, by]: body text, "..." and attribution
ContentLen(c) ==
    c.body + (IF c.ellipsis THEN Len("...") ELSE 0)
           + (IF c.by = "" THEN 0 ELSE Len(Attribution(c.by)))

\* new_content of a cleaned response of cleanedLen characters
BuildContent(cleanedLen, name) ==
    IF cleanedLen + Len(Attribution(name)) > MessageCeiling
    THEN [body |-> Min(cleanedLen, TruncateAt), ellipsis |-> TRUE, by |-> name]
    ELSE [body |-> cleanedLen, ellipsis |-> FALSE, by |-> name]

\* EndpointManager._create_client returns a client: known endpoint, api_key
\* present and no exception while building the client
CanCreate(ep, fail) == ep \in KnownEndpoints /\ ep \in hasKey /\ ~fail

\* EndpointManager.get_client on a manager whose clients are c
GetsClient(c, ep, fail) == ep \in c \/ CanCreate(ep, fail)
CacheAfter(c, ep, fail) == IF GetsClient(c, ep, fail) THEN c \cup {ep} ELSE c

\* Faulty variant: every configured model is offered, reachable or not
GetAvailableModelsUnfiltered(models, c, fails, i) == [avail |-> models, cache |-> c]

\* EndpointManager.get_available_models: the configured models, in order, whose
\* endpoint yields a client; fails[i] is an exception while creating the i-th client
RECURSIVE GetAvailableModels(_, _, _, _)
GetAvailableModels(models, c, fails, i) ==
    IF i > Len(models) THEN [avail |-> <<>>, cache |-> c]
    ELSE LET ep == models[i].endpoint
             got == GetsClient(c, ep, fails[i])
             rest == GetAvailableModels(models, CacheAfter(c, ep, fails[i]), fails, i + 1)
         IN [avail |-> (IF got THEN <<models[i]>> ELSE <<>>) \o rest.avail,
             cache |-> rest.cache]

\* ModelSelectionDropdown.callback: the first available model named selected_name
RECURSIVE FirstByName(_, _, _)
FirstByName(models, name, i) ==
    IF i > Len(models) THEN NoModel
    ELSE IF models[i].name = name THEN models[i]
    ELSE FirstByName(models, name, i + 1)

\* The options of the dropdown: one per available model, value = label = name
DropdownValues(models) == [i \in 1..Len(models) |-> models[i].name]

Notice(kind, via) == [kind |-> kind, via |-> via, ephemeral |-> TRUE]

\* Faulty variant: the error notice always takes the initial-response channel
ErrorViaResponse(p) == "response"
\* except-branch of _regenerate_with_model: the channel of the error notice
ErrorVia(p) == IF call[p].respDone THEN "followup" ELSE "response"

\* Faulty variants of the decisions below: the selection is skipped whenever a
\* model is available; a missing client is not noticed; the new control keeps
\* the selection its parent had; the model's display name is swapped in; the
\* client is left as the call set it.
SkipsSelectionLoose(avail) == Len(avail) >= 1
ClientOkUnchecked(got) == TRUE
NewViewSelectionStale(p) == viewSel[call[p].view]
SwappedModelByName(cfg) == cfg.name
RestoredClientKept(p) == activeClient

\* RegenerateButton.callback: "if not available_models" and
\* "if len(available_models) == 1"
NoAlternatives(avail) == Len(avail) = 0
SkipsSelection(avail) == Len(avail) = 1

\* _regenerate_with_model: "if not client" is false, got tells whether
\* get_client returned a client
ClientOk(got) == got

\* the selected_model_info of the control built after the content edit
NewViewSelection(p) == call[p].chosen

\* the model and client _regenerate_with_model switches to
SwappedModel(cfg) == cfg.model
SwappedClient(v, cfg) == [reg |-> v, ep |-> cfg.endpoint]

\* finally-branch of _regenerate_with_model
RestoredModel(p) == call[p].savedModel
RestoredClient(p) == call[p].savedClient

pc(p) == call[p].pc
InCall(p) == pc(p) \in {"deferring", "acquiring", "noClient", "inPipeline", "cleaning",
                        "editContent", "editView", "sendSuccess", "sendFailed",
                        "sendFiltered"}
\* between the swap and the restore of _regenerate_with_model
InSection(p) == pc(p) \in {"inPipeline", "cleaning", "editContent", "editView",
                          "sendSuccess", "sendFailed", "sendFiltered"}
ChatInFlight == chatPc \in {"choosing", "inPipeline", "cleaning", "sending"}
ChatInSection == chatPc \in {"inPipeline", "cleaning", "sending"}

Snapshot == [model |-> ctxModel, client |-> activeClient, content |-> msgContent]

\* ------------------------------------------------------- ledger contents
\* datetime.now().isoformat() and datetime.fromisoformat(): a timestamp is text
Day == 24 * 60 * 60
Times == {d * Day : d \in 0..MaxDays}
IsoFormat(t) == ToString(t)
CanParse(s) == \E t \in Times : IsoFormat(t) = s
FromIsoFormat(s) == CHOOSE t \in Times : IsoFormat(t) = s

\* A ledger entry: a dict d, or something that is not a dict
Dict(d) == [isDict |-> TRUE, d |-> d]
NotARecord == [isDict |-> FALSE, d |-> [k \in {} |-> ""]]
\* dict.get(k)
Get(d, k) == IF k \in DOMAIN d THEN d[k] ELSE "None"
Put(f, k, v) == [x \in DOMAIN f \cup {k} |-> IF x = k THEN v ELSE f[x]]

EmptyStore == [isDict |-> TRUE, items |-> [k \in {} |-> NotARecord]]
NotAMapping == [isDict |-> FALSE, items |-> [k \in {} |-> NotARecord]]

\* log_rating's rating_data for a reaction stored at time t
StoredRecord(u, model, endpoint, rating, t) ==
    Dict([user_id |-> u, guild_id |-> GuildId, model |-> model, endpoint |-> endpoint,
          rating |-> rating, timestamp |-> IsoFormat(t), response_content |-> "text"])

\* Entries left by earlier runs: not a dict; a record without timestamp; a record
\* whose timestamp does not parse; a day-0 record without model and endpoint;
\* records as log_rating writes them, of day 0 and of day 1
LegacyEntries ==
    [k \in {"l1", "l2", "l3", "l4", "r0", "r1"} |->
        CASE k = "r0" -> StoredRecord("alice", ModelBee.name, ModelBee.endpoint,
                                      "thumbs_down", 0)
          [] k = "r1" -> StoredRecord("alice", ModelBee.name, ModelBee.endpoint,
                                      "positive", Day)
          [] k = "l1" -> NotARecord
          [] k = "l2" -> Dict([model |-> ModelBee.name, endpoint |-> ModelBee.endpoint,
                               rating |-> "thumbs_up"])
          [] k = "l3" -> Dict([user_id |-> "alice", guild_id |-> GuildId,
                               model |-> ModelBee.name, endpoint |-> ModelBee.endpoint,
                               rating |-> "thumbs_down", timestamp |-> "yesterday",
                               response_content |-> "text"])
          [] k = "l4" -> Dict([user_id |-> "alice", rating |-> "thumbs_up",
                               timestamp |-> IsoFormat(0)])]
InitStores ==
    {NotAMapping} \cup
    {[isDict |-> TRUE, items |-> [k \in S |-> LegacyEntries[k]]] :
        S \in SUBSET DOMAIN LegacyEntries}

NoOp == [name |-> "none"]

\* setup_reaction_monitoring: what cog.tracked_messages keeps of a message
TrackedInfo(info) == [model |-> info.name, endpoint |-> info.endpoint,
                      content |-> "text", guild_id |-> GuildId]

\* ------------------------------------------------ administrative commands
\* names given to the commands: two spellings of one name, and another name
AdminNames == {"Bee", "bee", "Cee"}
AdminModel == "gpt-b"
AdminEndpoints == KnownEndpoints \cup {"azure"}

\* str.lower() on the names in use
Lower(s) ==
    CASE s \in {"Bee", "bee"} -> "bee"
      [] s = "Cee" -> "cee"
      [] OTHER -> s

\* the command of the latest step: its name and argument, how it ended
\* ("rejected": it returned after a warning, "done": the list was stored,
\* "failed": the except-branch ran) and the replies it sent, in order
NoAdminOp == [name |-> "", arg |-> "", endpoint |-> "", default |-> FALSE,
              outcome |-> "", replies |-> <<>>]

\* ------------------------------------------------- one EndpointManager
\* clients.get(e) of an endpoint that is not a key of the dict
Absent == [id |-> -1]
\* None
NoneClient == [id |-> 0]
\* the k-th AsyncOpenAI object the manager constructed
Client(k) == [id |-> k]
\* the call of the latest step: get_client(endpoint) with what it returned,
\* whether _create_client ran and whether the call raised; or close_all_clients
NoRegOp == [name |-> "", endpoint |-> "", result |-> NoneClient, tried |-> FALSE,
            raised |-> FALSE]

\* ------------------------------------------------- create_chat_response
\* lengths of the cleaned response; 0 is the empty text, 2000 the ceiling of
\* send_response and 4100 a text of three chunks
ResponseLens == CleanedLens \cup {2000, 4100}
\* the call of the latest step: how it ended ("true", "false", "raised"), its
\* LLMPipeline.run() invocations, what the pipeline returned ("empty", "text",
\* "raise"), the length of the cleaned text (-1: not reached, or the cleaning
\* raised), the messages it delivered in order, the random model it swapped in
\* (selected_model_info) and whether the context was an interaction
\* enabled is random_model_enabled, drawn what get_random_model returned
\* (NoModel for None), model and client what messages_list.model and
\* cog.openai_client are while pipeline.run() runs.
NoResp == [ret |-> "", runs |-> 0, output |-> "", cleaned |-> -1, sent |-> <<>>,
           random |-> NoModel, interaction |-> FALSE, enabled |-> FALSE,
           drawn |-> NoModel, model |-> "", client |-> NoClient]

\* ------------------------------------------- remove_patterns_from_response
\* a text is a sequence of characters
Chars == {" ", "\n", "\t", "a"}
Texts == UNION {[1..n -> Chars] : n \in 0..MaxLen}
\* An expanded pattern: a regular expression that matches every occurrence of
\* one character, one whose application exceeds REGEX_RUN_TIMEOUT, and one
\* that re.compile rejects.
Patterns == {[kind |-> "matches", char |-> "a"], [kind |-> "matches", char |-> "\t"],
             [kind |-> "timeout", char |-> ""], [kind |-> "error", char |-> ""]}
PatternLists == UNION {[1..n -> Patterns] : n \in 0..MaxPatterns}
\* The call: its response and expanded_patterns, the number of patterns gone
\* through, cleaned, and its position ("called", "looping", "returned")
CleanInputs == {[response |-> t, patterns |-> ps, applied |-> 0, cleaned |-> <<>>,
                 pc |-> "called"] : t \in Texts, ps \in PatternLists}
NoCleanOp == [response |-> <<>>, patterns |-> <<>>, applied |-> 0, cleaned |-> <<>>,
              pc |-> ""]

\* ------------------------------------------------------ concurrent tasks
Tasks == 1..MaxTasks
\* A task on the rating ledger: the reaction (m, u, e) or the cleanup (days) it
\* handles, its locals (cutoff_date, rating_data, and ratings or cleaned_ratings
\* in local) and its position: "idle", "reading" (at the await of the store
\* read), "writing" (at the await of the store write), "done"
IdleLogTask == [pc |-> "idle", kind |-> "", m |-> "", u |-> "", e |-> "", days |-> 0,
                cutoff |-> 0, data |-> NotARecord, local |-> EmptyStore]
\* A get_client call: its endpoint, the client it created and its position:
\* "idle", "creating" (inside the awaits of _create_client), "created" (the
\* client is back), "done"
IdleGetTask == [pc |-> "idle", ep |-> "", client |-> Absent]

\* ------------------------------------------------------------------- Init
\* every variable but the rating ledger
InitButLedger ==
    /\ regenModels \in ConfigChoices
    /\ hasKey \in KeyChoices
    /\ cache = [v \in ViewIds |-> {}]
    /\ cogCache = {}
    /\ viewState = [v \in ViewIds |-> IF v = 0 THEN "live" ELSE "none"]
    /\ viewSel = [v \in ViewIds |-> IF v = 0 THEN CurrentModelInfo ELSE NoModel]
    /\ viewDisabled = [v \in ViewIds |-> FALSE]
    /\ msgView = 0
    /\ msgContent = InitContent
    /\ ctxModel = InitModel
    /\ activeClient = MainClient
    /\ call = [p \in Calls |-> IdleCall]
    /\ last = NoLast
    /\ requested = {}
    /\ chatPc = "idle"
    /\ chatModel = ChatInitModel
    /\ chatSaved = NoClient
    /\ chatRuns = 0
    /\ tracked = (TrackedId :> TrackedInfo(CurrentModelInfo))
    /\ now = 0
    /\ occurred = <<>>
    /\ op = NoOp
    /\ adminOp = NoAdminOp
    /\ clients = [e \in AdminEndpoints |-> Absent]
    /\ made = 0
    /\ closedClients = {}
    /\ regOp = NoRegOp
    /\ resp = NoResp
    /\ logTask = [t \in Tasks |-> IdleLogTask]
    /\ getTask = [t \in Tasks |-> IdleGetTask]

\* the ledger is an empty dict
Init == InitButLedger /\ ratings = EmptyStore /\ cleanOp = NoCleanOp

\* the ledger is whatever the store holds from earlier runs; both alternatives
\* are configured and reachable
InitAnyLedger ==
    /\ InitButLedger
    /\ regenModels = <<ModelBee, ModelCee>> /\ hasKey = KnownEndpoints
    /\ ratings \in InitStores
    /\ cleanOp = NoCleanOp

\* the request p moves on with its locals changed to r
Goes(p, r) == call' = [call EXCEPT ![p] = r]
\* the handler of request p returns with outcome o after sending the notices ns
\* and after e further original_message.edit() calls
Returns(p, o, ns, e) ==
    /\ call' = [call EXCEPT ![p] = DoneCall]
    /\ last' = [outcome |-> o, notices |-> call[p].notices \o ns,
                runs |-> call[p].runs, edits |-> call[p].edits + e]
\* except-branch of _regenerate_with_model: the error notice, on the channel
\* is_done() selects; an exception of that send is swallowed
ErrorNotice(p) == Notice("error", ErrorVia(p))

\* ---------------------------------------------- RegenerateButton.callback
\* A click on the button of the attached, enabled control. readOk: the config
\* read of get_available_models succeeds; sendOk: interaction.response.send_message
\* succeeds. An exception of either propagates out of the callback.
Activate(p) ==
    /\ pc(p) = "idle"
    /\ \A q \in Calls : q < p => pc(q) # "idle"
    /\ viewState[msgView] = "live" /\ ~viewDisabled[msgView]
    /\ \E readOk \in BOOLEAN, sendOk \in BOOLEAN,
          fails \in [1..Len(regenModels) -> BOOLEAN] :
        LET v == msgView
            r == GetAvailableModels(regenModels, cache[v], fails, 1)
        IN IF ~readOk
           THEN /\ sendOk
                /\ \A i \in DOMAIN fails : ~fails[i]
                /\ Returns(p, "propagated", <<>>, 0)
                /\ UNCHANGED cache
           ELSE /\ cache' = [cache EXCEPT ![v] = r.cache]
                /\ IF NoAlternatives(r.avail)
                   THEN Returns(p, IF sendOk THEN "noAlternatives" ELSE "propagated",
                                <<Notice("noAlternatives", "response")>>, 0)
                   ELSE IF SkipsSelection(r.avail)
                   THEN /\ sendOk
                        /\ Goes(p, [call[p] EXCEPT !.pc = "deferring", !.view = v,
                                                   !.chosen = r.avail[1],
                                                   !.entry = Snapshot])
                        /\ UNCHANGED last
                   ELSE IF sendOk
                   THEN /\ Goes(p, [call[p] EXCEPT !.pc = "selecting", !.view = v,
                                                   !.options = r.avail, !.respDone = TRUE,
                                                   !.notices = <<Notice("chooseModel",
                                                                        "response")>>])
                        /\ UNCHANGED last
                   ELSE Returns(p, "propagated", <<Notice("chooseModel", "response")>>, 0)
    /\ UNCHANGED <<viewVars, msgVars, sharedVars, requested, envVars, soloVars, taskVars,
                   chatVars, ledgerVars, cogCache>>

\* ------------------------------------------ ModelSelectionDropdown.callback
\* The requester picks the i-th option; the pick arrives as a new interaction and
\* enters _regenerate_with_model of the button of the dropdown's parent control.
Select(p) ==
    /\ pc(p) = "selecting"
    /\ \E i \in 1..Len(call[p].options) :
        LET selected_name == DropdownValues(call[p].options)[i]
        IN Goes(p, [call[p] EXCEPT !.pc = "deferring", !.respDone = FALSE,
                        !.chosen = FirstByName(call[p].options, selected_name, 1),
                        !.entry = Snapshot])
    /\ UNCHANGED <<viewVars, msgVars, sharedVars, last, requested, envVars, soloVars, taskVars, chatVars,
                   ledgerVars, cache, cogCache>>

\* ---------------------------------- RegenerateButton._regenerate_with_model
\* await interaction.response.defer(ephemeral=True)
Defer(p) ==
    /\ pc(p) = "deferring"
    /\ \E ok \in BOOLEAN :
        IF ok
        THEN /\ Goes(p, [call[p] EXCEPT !.pc = "acquiring", !.respDone = TRUE])
             /\ UNCHANGED last
        ELSE Returns(p, "failed", <<ErrorNotice(p)>>, 0)
    /\ UNCHANGED <<viewVars, msgVars, sharedVars, requested, envVars, soloVars, taskVars, chatVars,
                   ledgerVars, cache, cogCache>>

\* client = await get_client(endpoint); without a client the notice is next, with
\* one the call saves model and client, swaps both and starts the pipeline.
Acquire(p) ==
    /\ pc(p) = "acquiring"
    /\ \E fail \in BOOLEAN :
        LET v == call[p].view
            ep == call[p].chosen.endpoint
        IN /\ cache' = [cache EXCEPT ![v] = CacheAfter(@, ep, fail)]
           /\ IF ClientOk(GetsClient(cache[v], ep, fail))
              THEN /\ Goes(p, [call[p] EXCEPT !.pc = "inPipeline", !.runs = @ + 1,
                                   !.savedClient = activeClient, !.savedModel = ctxModel])
                   /\ activeClient' = SwappedClient(v, call[p].chosen)
                   /\ ctxModel' = SwappedModel(call[p].chosen)
                   /\ requested' = requested \cup {call[p].chosen.model}
              ELSE /\ Goes(p, [call[p] EXCEPT !.pc = "noClient"])
                   /\ UNCHANGED <<sharedVars, requested>>
    /\ UNCHANGED <<viewVars, msgVars, last, envVars, soloVars, taskVars, chatVars, ledgerVars,
                   cogCache>>

\* await interaction.followup.send("Failed to connect to endpoint"); return
SendNoClient(p) ==
    /\ pc(p) = "noClient"
    /\ \E ok \in BOOLEAN :
        IF ok
        THEN Returns(p, "endpointUnreachable",
                     <<Notice("endpointUnreachable", "followup")>>, 0)
        ELSE Returns(p, "failed", <<Notice("endpointUnreachable", "followup"),
                                    ErrorNotice(p)>>, 0)
    /\ UNCHANGED <<viewVars, msgVars, sharedVars, requested, envVars, soloVars, taskVars, chatVars,
                   ledgerVars, cache, cogCache>>

\* finally-branch: restore client and model
Restore(p) ==
    /\ activeClient' = RestoredClient(p)
    /\ ctxModel' = RestoredModel(p)

\* an await inside the try-block raised (the e-th further edit call, if any):
\* finally-branch, then except-branch
Raised(p, e) ==
    /\ Restore(p)
    /\ Returns(p, "failed", <<ErrorNotice(p)>>, e)

\* response = await pipeline.run()
PipelineReturn(p) ==
    /\ pc(p) = "inPipeline"
    /\ \/ /\ \E next \in {"cleaning", "sendFailed"} : Goes(p, [call[p] EXCEPT !.pc = next])
          /\ UNCHANGED <<last, sharedVars>>
       \/ Raised(p, 0)
    /\ UNCHANGED <<viewVars, msgVars, requested, envVars, soloVars, taskVars, chatVars, ledgerVars, cache,
                   cogCache>>

\* cleaned_response = await remove_patterns_from_response(...); new_content
CleanReturn(p) ==
    /\ pc(p) = "cleaning"
    /\ \/ /\ \E n \in CleanedLens :
               IF n = 0
               THEN Goes(p, [call[p] EXCEPT !.pc = "sendFiltered"])
               ELSE Goes(p, [call[p] EXCEPT !.pc = "editContent",
                                 !.newContent = BuildContent(n, call[p].chosen.name)])
          /\ UNCHANGED <<last, sharedVars>>
       \/ Raised(p, 0)
    /\ UNCHANGED <<viewVars, msgVars, requested, envVars, soloVars, taskVars, chatVars, ledgerVars, cache,
                   cogCache>>

\* await original_message.edit(content=new_content); the platform rejects a
\* content above its ceiling. Then selected_model_info = model_config and the
\* new SubtleRegenerationView is built.
EditContent(p) ==
    /\ pc(p) = "editContent"
    /\ \/ /\ ContentLen(call[p].newContent) <= MessageCeiling
          /\ msgContent' = call[p].newContent
          /\ viewSel' = [viewSel EXCEPT ![call[p].view] = call[p].chosen,
                                        ![p] = NewViewSelection(p)]
          /\ viewState' = [viewState EXCEPT ![p] = "built"]
          /\ Goes(p, [call[p] EXCEPT !.pc = "editView", !.edits = @ + 1])
          /\ UNCHANGED <<last, sharedVars>>
       \/ /\ Raised(p, 1)
          /\ UNCHANGED <<msgContent, viewSel, viewState>>
    /\ UNCHANGED <<viewDisabled, msgView, requested, envVars, soloVars, taskVars, chatVars, ledgerVars,
                   cache, cogCache>>

\* await original_message.edit(view=new_view)
EditView(p) ==
    /\ pc(p) = "editView"
    /\ \/ /\ msgView' = p
          /\ viewState' = [viewState EXCEPT ![p] = "live"]
          /\ Goes(p, [call[p] EXCEPT !.pc = "sendSuccess", !.edits = @ + 1])
          /\ UNCHANGED <<last, sharedVars>>
       \/ /\ Raised(p, 1)
          /\ UNCHANGED <<msgView, viewState>>
    /\ UNCHANGED <<viewSel, viewDisabled, msgContent, requested, envVars, soloVars, taskVars, chatVars,
                   ledgerVars, cache, cogCache>>

\* Faulty variant: every ending is announced as a success
FinalKindAlwaysSuccess(p) == "success"

\* the notice that ends the try-block: "Regenerated with ...", "Failed to
\* generate response" or "Response was filtered out"; then the finally-branch
FinalKind(p) ==
    CASE pc(p) = "sendSuccess" -> "success"
      [] pc(p) = "sendFailed" -> "failedToGenerate"
      [] pc(p) = "sendFiltered" -> "filteredOut"

SendFinal(p) ==
    /\ pc(p) \in {"sendSuccess", "sendFailed", "sendFiltered"}
    /\ Restore(p)
    /\ \E ok \in BOOLEAN :
        IF ok
        THEN Returns(p, FinalKind(p), <<Notice(FinalKind(p), "followup")>>, 0)
        ELSE Returns(p, "failed", <<Notice(FinalKind(p), "followup"), ErrorNotice(p)>>, 0)
    /\ UNCHANGED <<viewVars, msgVars, requested, envVars, soloVars, taskVars, chatVars, ledgerVars, cache,
                   cogCache>>

\* ------------------------------------------- SubtleRegenerationView.on_timeout
\* Every item is disabled and the message is edited to show this view; NotFound
\* and HTTPException of the edit are swallowed.
\* Faulty variant: the items stay enabled
DisabledItemsNone(v) == viewDisabled

\* for item in self.children: item.disabled = True
DisabledItems(v) == [viewDisabled EXCEPT ![v] = TRUE]

OnTimeout(v) ==
    /\ viewState[v] = "live"
    /\ viewState' = [viewState EXCEPT ![v] = "timedout"]
    /\ viewDisabled' = DisabledItems(v)
    /\ \E ok \in BOOLEAN : msgView' = IF ok THEN v ELSE msgView
    /\ UNCHANGED <<viewSel, msgContent, sharedVars, call, histVars, envVars, soloVars, taskVars, chatVars,
                   ledgerVars, cache, cogCache>>

\* ------------------------------------------ EndpointManager.close_all_clients
CloseAllClients(v) ==
    /\ viewState[v] # "none"
    /\ cache[v] # {}
    /\ cache' = [cache EXCEPT ![v] = {}]
    /\ UNCHANGED <<regenVars, envVars, soloVars, taskVars, chatVars, ledgerVars, cogCache>>

\* ------------------------------------------------------ create_chat_response
\* The initial response of an unrelated MessageContext; it shares cog.openai_client.
\* random_model_enabled is read, then original_client = cog.openai_client.
ChatBegin ==
    /\ chatPc = "idle"
    /\ \E readOk \in BOOLEAN, random_model_enabled \in BOOLEAN :
        IF ~readOk
        THEN /\ ~random_model_enabled
             /\ chatPc' = "done"
             /\ UNCHANGED <<chatSaved, chatRuns>>
        ELSE /\ chatSaved' = activeClient
             /\ IF random_model_enabled
                THEN chatPc' = "choosing" /\ UNCHANGED chatRuns
                ELSE chatPc' = "inPipeline" /\ chatRuns' = chatRuns + 1
    /\ UNCHANGED <<regenVars, chatModel, envVars, soloVars, taskVars, ledgerVars, cache, cogCache>>

\* get_random_model (a manager of its own, any failure gives None), then
\* cog.endpoint_manager.get_client; with a client, client and model are swapped.
\* The pipeline starts in every case.
ChatChoose ==
    /\ chatPc = "choosing"
    /\ chatPc' = "inPipeline"
    /\ chatRuns' = chatRuns + 1
    /\ \E fails \in [1..Len(regenModels) -> BOOLEAN], fail2 \in BOOLEAN :
        LET avail == GetAvailableModels(regenModels, {}, fails, 1).avail
        IN \/ /\ ~fail2
              /\ UNCHANGED <<activeClient, chatModel, cogCache>>
           \/ \E i \in 1..Len(avail) :
                LET random_model == avail[i]
                    ep == random_model.endpoint
                IN /\ cogCache' = CacheAfter(cogCache, ep, fail2)
                   /\ IF GetsClient(cogCache, ep, fail2)
                      THEN /\ activeClient' = SwappedClient(CogReg, random_model)
                           /\ chatModel' = SwappedModel(random_model)
                      ELSE UNCHANGED <<activeClient, chatModel>>
    /\ UNCHANGED <<viewVars, msgVars, ctxModel, call, histVars, chatSaved, envVars, soloVars, taskVars,
                   ledgerVars, cache>>

\* Faulty variant: the client of the random model stays
OriginalClientKept(original_client, current) == current
\* finally-branch of create_chat_response: cog.openai_client = original_client;
\* only the client is restored
OriginalClient(original_client, current) == original_client
ChatRestoredClient == OriginalClient(chatSaved, activeClient)

\* pipeline.run(), remove_patterns_from_response and the delivery; each may
\* raise, an empty text returns False; leaving the try-block restores the client.
ChatStep ==
    /\ chatPc \in {"inPipeline", "cleaning", "sending"}
    /\ \/ /\ chatPc # "sending"
          /\ chatPc' = IF chatPc = "inPipeline" THEN "cleaning" ELSE "sending"
          /\ UNCHANGED <<activeClient, chatSaved>>
       \/ /\ chatPc' = "done"
          /\ activeClient' = ChatRestoredClient
          /\ chatSaved' = NoClient
    /\ UNCHANGED <<viewVars, msgVars, ctxModel, call, histVars, chatModel, chatRuns,
                   envVars, soloVars, taskVars, ledgerVars, cache, cogCache>>

\* ---------------------------------------------------------- rating ledger
\* a response is delivered as message m with model info and becomes tracked
Track(m) ==
    /\ m \notin DOMAIN tracked
    /\ \E info \in {ModelBee} :
          tracked' = [x \in DOMAIN tracked \cup {m} |->
                         IF x = m THEN TrackedInfo(info) ELSE tracked[x]]
    /\ op' = NoOp
    /\ UNCHANGED <<regenVars, envVars, soloVars, taskVars, chatVars, ratings, now, occurred, cache, cogCache>>

\* time passes
Tick ==
    /\ now + Day \in Times
    /\ now' = now + Day
    /\ op' = NoOp
    /\ UNCHANGED <<regenVars, envVars, soloVars, taskVars, chatVars, tracked, ratings, occurred, cache,
                   cogCache>>

\* ------------------------------------------------------ handle_reaction_add
\* Faulty variants: the ledger key is the message id alone; reactions of the bot
\* itself count
RatingKeyOfMessage(m, u, e) == m
QualifiesBotToo(m, u, e) == m \in DOMAIN tracked /\ e \in DOMAIN ReactionSentimentMap

\* rating_key = f"{message_id}_{payload.user_id}_{emoji_str}"
RatingKey(m, u, e) == m \o "_" \o u \o "_" \o e

\* the three early returns of handle_reaction_add do not happen
Qualifies(m, u, e) ==
    /\ m \in DOMAIN tracked
    /\ u # BotId
    /\ e \in DOMAIN ReactionSentimentMap

\* ResponseRating.log_rating: rating_data
RatingRecord(m, u, e) ==
    Dict([user_id |-> u, guild_id |-> tracked[m].guild_id, model |-> tracked[m].model,
          endpoint |-> tracked[m].endpoint, rating |-> ReactionSentimentMap[e],
          timestamp |-> IsoFormat(now), response_content |-> tracked[m].content])

\* ResponseRating.log_rating: a ledger that is not a dict is replaced by {}, the
\* record overwrites the entry of its key; ok: the store access succeeds, else
\* the exception is logged and nothing is written.
LogRating(key, data, ok) ==
    IF ok
    THEN [isDict |-> TRUE,
          items |-> Put(IF ratings.isDict THEN ratings.items ELSE EmptyStore.items,
                        key, data)]
    ELSE ratings

HandleReactionAdd ==
    /\ \E m \in MessageIds, u \in Actors, e \in Emojis, ok \in BOOLEAN :
        /\ op' = [name |-> "reaction", m |-> m, u |-> u, e |-> e]
        /\ IF Qualifies(m, u, e)
           THEN /\ ok => Len(occurred) < MaxReactions
                /\ ratings' = LogRating(RatingKey(m, u, e), RatingRecord(m, u, e), ok)
                /\ occurred' = IF ok THEN Append(occurred, <<m, u, e>>) ELSE occurred
           ELSE ok /\ UNCHANGED <<ratings, occurred>>
    /\ UNCHANGED <<regenVars, envVars, soloVars, taskVars, chatVars, tracked, now, cache, cogCache>>

\* ------------------------------------------- ResponseRating.get_model_stats
\* Faulty variant: the model and endpoint filters are ignored
MatchesAlways(d, model, endpoint) == TRUE

\* "if model and rating_data.get("model") != model: continue", the same for
\* endpoint; "" stands for None
Matches(d, model, endpoint) ==
    /\ model = "" \/ Get(d, "model") = model
    /\ endpoint = "" \/ Get(d, "endpoint") = endpoint

\* the entries counted under label
Counted(items, model, endpoint, label) ==
    {k \in DOMAIN items : /\ items[k].isDict
                          /\ Matches(items[k].d, model, endpoint)
                          /\ Get(items[k].d, "rating") = label}

NoStats == [thumbs_up |-> 0, thumbs_down |-> 0, total |-> 0]

\* readOk: the store read succeeds; an exception gives the zero result
GetModelStats(model, endpoint, readOk) ==
    IF ~readOk \/ ~ratings.isDict THEN NoStats
    ELSE LET thumbs_up == Cardinality(Counted(ratings.items, model, endpoint, "thumbs_up"))
             thumbs_down == Cardinality(Counted(ratings.items, model, endpoint,
                                                "thumbs_down"))
         IN [thumbs_up |-> thumbs_up, thumbs_down |-> thumbs_down,
             total |-> thumbs_up + thumbs_down]

\* regen_stats asks for the overall numbers and for those of a configured model
StatsQueries ==
    {[model |-> "", endpoint |-> ""],
     [model |-> CurrentModelInfo.name, endpoint |-> CurrentModelInfo.endpoint]}
    \cup {[model |-> regenModels[i].name, endpoint |-> regenModels[i].endpoint] :
             i \in DOMAIN regenModels}

GetStats ==
    /\ \E q \in StatsQueries, readOk \in BOOLEAN :
          op' = [name |-> "stats", model |-> q.model, endpoint |-> q.endpoint,
                 readOk |-> readOk, raised |-> FALSE,
                 result |-> GetModelStats(q.model, q.endpoint, readOk)]
    /\ UNCHANGED <<regenVars, envVars, soloVars, taskVars, chatVars, tracked, ratings, now, occurred, cache,
                   cogCache>>

\* --------------------------------------- ResponseRating.cleanup_old_ratings
\* Faulty variant: a record whose timestamp does not parse is dropped
KeepsParsedOnly(e, cutoff_date) ==
    /\ e.isDict /\ "timestamp" \in DOMAIN e.d
    /\ CanParse(e.d.timestamp) /\ FromIsoFormat(e.d.timestamp) > cutoff_date

\* the entry goes into cleaned_ratings
Keeps(e, cutoff_date) ==
    /\ e.isDict /\ "timestamp" \in DOMAIN e.d
    /\ IF CanParse(e.d.timestamp)
       THEN FromIsoFormat(e.d.timestamp) > cutoff_date
       ELSE TRUE

CutoffDate(days_to_keep) == now - days_to_keep * Day

\* ok: the store read and the store write succeed; a ledger that is not a dict
\* ends the call, an exception is logged. kept and outOf are the numbers of the
\* closing log line.
CleanupOldRatings ==
    /\ \E days_to_keep \in 0..1, ok \in BOOLEAN :
        LET kept == {k \in DOMAIN ratings.items :
                        Keeps(ratings.items[k], CutoffDate(days_to_keep))}
        IN /\ op' = [name |-> "cleanup", days |-> days_to_keep, ok |-> ok,
                     kept |-> IF ok /\ ratings.isDict THEN Cardinality(kept) ELSE 0,
                     outOf |-> Cardinality(DOMAIN ratings.items)]
           /\ IF ok /\ ratings.isDict
              THEN ratings' = [isDict |-> TRUE,
                               items |-> [k \in kept |-> ratings.items[k]]]
              ELSE UNCHANGED ratings
    /\ UNCHANGED <<regenVars, envVars, soloVars, taskVars, chatVars, tracked, now, occurred, cache, cogCache>>

\* ------------------------------ ledger operations, cut at their store awaits
\* the task t moves on with its locals changed to r
LogGoes(t, r) == logTask' = [logTask EXCEPT ![t] = r]

\* cleanup_old_ratings: cleaned_ratings of the ledger just read
CleanedRatings(cutoff_date) ==
    LET kept == {k \in DOMAIN ratings.items : Keeps(ratings.items[k], cutoff_date)}
    IN [isDict |-> TRUE, items |-> [k \in kept |-> ratings.items[k]]]

\* handle_reaction_add up to the await of log_rating's store read; an event
\* that does not qualify returns at once
ReactionArrives(t) ==
    /\ logTask[t].pc = "idle"
    /\ \E m \in MessageIds, u \in Actors, e \in Emojis :
          LogGoes(t, [logTask[t] EXCEPT !.m = m, !.u = u, !.e = e,
                         !.kind = IF Qualifies(m, u, e) THEN "log" ELSE "ignored",
                         !.pc = IF Qualifies(m, u, e) THEN "reading" ELSE "done"])
    /\ UNCHANGED <<regenVars, envVars, soloVars, chatVars, ledgerVars, cache, cogCache,
                   cleanOp, getTask>>

\* regen_cleanup up to the await of cleanup_old_ratings' store read
CleanupCalled(t) ==
    /\ logTask[t].pc = "idle"
    /\ \E days_to_keep \in 0..1 :
          LogGoes(t, [logTask[t] EXCEPT !.kind = "cleanup", !.days = days_to_keep,
                                        !.pc = "reading"])
    /\ UNCHANGED <<regenVars, envVars, soloVars, chatVars, ledgerVars, cache, cogCache,
                   cleanOp, getTask>>

\* "ratings = await self.config.response_ratings()" returns, and the task runs
\* on to the await of the store write: log_rating puts rating_data into the
\* dict it read, cleanup_old_ratings builds cleaned_ratings from it
LedgerRead(t) ==
    /\ logTask[t].pc = "reading"
    /\ LET r == logTask[t]
           data == RatingRecord(r.m, r.u, r.e)
       IN IF r.kind = "log"
          THEN LogGoes(t, [r EXCEPT !.data = data, !.pc = "writing",
                              !.local = LogRating(RatingKey(r.m, r.u, r.e), data, TRUE)])
          ELSE IF ratings.isDict
               THEN LogGoes(t, [r EXCEPT !.cutoff = CutoffDate(r.days), !.pc = "writing",
                                   !.local = CleanedRatings(CutoffDate(r.days))])
               ELSE LogGoes(t, [r EXCEPT !.pc = "done"])
    /\ UNCHANGED <<regenVars, envVars, soloVars, chatVars, ledgerVars, cache, cogCache,
                   cleanOp, getTask>>

\* "await self.config.response_ratings.set(...)": the store takes the dict of
\* the task in place of whatever it holds
LedgerWrite(t) ==
    /\ logTask[t].pc = "writing"
    /\ ratings' = logTask[t].local
    /\ LogGoes(t, [logTask[t] EXCEPT !.pc = "done"])
    /\ UNCHANGED <<regenVars, envVars, soloVars, chatVars, tracked, now, occurred, op,
                   cache, cogCache, cleanOp, getTask>>

\* ------------------------------------- create_chat_response, the whole call
\* The call run from its first line to its return with no other task in
\* between; ChatBegin, ChatChoose and ChatStep are the same call cut at its
\* awaits.

\* id of the k-th message a call delivers
MessageId(k) == "r" \o ToString(k)

\* response[i:i + 2000] of a response of n characters: where the piece starts
\* and how long it is
Slice(n, i) == [at |-> i, len |-> Min(n - i, SendCeiling)]
\* Faulty variant: the response goes out in one piece
ChunksWhole(n) == <<[at |-> 0, len |-> n]>>
\* send_response: the pieces for i in range(0, len(response), 2000)
Chunks(n) ==
    [k \in 1..((n + SendCeiling - 1) \div SendCeiling) |-> Slice(n, (k - 1) * SendCeiling)]

\* Faulty variant: an empty text is delivered like any other
IsEmptyNever(len) == FALSE
\* if not response / if not cleaned_response
IsEmpty(len) == len = 0

\* A delivered message: its id, "panel" (embed) or "plain", its text as the
\* piece of the response it is (start and length), the model name of the embed
\* footer, the call that sent it and the view attached to it ("none", "full",
\* "subtle").
Message(k, kind, piece, by, via, view) ==
    [id |-> MessageId(k), kind |-> kind, at |-> piece.at, len |-> piece.len, by |-> by,
     via |-> via, view |-> view]

\* send_response: the text in pieces when it is 2000 characters or longer, else
\* one reply or one send; failAt is the send that raises (0: none does). The
\* parameters add_regeneration and messages_list are not used.
SendResponse(len, replies, failAt) ==
    LET pieces == IF len >= SendCeiling THEN Chunks(len) ELSE <<[at |-> 0, len |-> len]>>
        via == IF len >= SendCeiling THEN "send"
               ELSE IF replies THEN "reply" ELSE "send"
        done == IF failAt = 0 \/ failAt > Len(pieces) THEN Len(pieces) ELSE failAt - 1
    IN [ret |-> IF done = Len(pieces) THEN "true" ELSE "raised",
        sent |-> [k \in 1..done |-> Message(k, "plain", pieces[k], "", via, "none")]]

\* add_regeneration_view(cog, ctx, message, messages_list): the full
\* regeneration controls are attached to the message, or the call raises
AddRegenerationView(message, viewOk) ==
    [ret |-> IF viewOk THEN "true" ELSE "raised",
     sent |-> <<IF viewOk THEN [message EXCEPT !.view = "full"] ELSE message>>]

\* The delivery of create_chat_response: an embed when a random model was
\* selected or the context is an interaction, with add_regeneration_view for
\* the interaction only; else send_response.
Deliver(selected, interaction, len, replies, failAt, viewOk) ==
    IF selected # NoModel \/ interaction
    THEN LET message == Message(1, "panel", [at |-> 0, len |-> len], selected.name,
                                IF interaction THEN "followup" ELSE "send", "none")
         IN IF failAt = 1 THEN [ret |-> "raised", sent |-> <<>>]
            ELSE IF interaction THEN AddRegenerationView(message, viewOk)
            ELSE [ret |-> "true", sent |-> <<message>>]
    ELSE SendResponse(len, replies, failAt)

\* What a call does from pipeline.run() on, for every behaviour of the
\* pipeline ("raise", "empty", "text"), every cleaned text (-1: the cleaning
\* raises), every answer of can_reply and should_reply(), every send that raises
\* (failAt) and both ends of add_regeneration_view.
Outcomes(selected, interaction) ==
    {[ret |-> "raised", output |-> "raise", cleaned |-> -1, sent |-> <<>>],
     [ret |-> "false", output |-> "empty", cleaned |-> -1, sent |-> <<>>],
     [ret |-> "raised", output |-> "text", cleaned |-> -1, sent |-> <<>>]}
    \cup {[ret |-> "false", output |-> "text", cleaned |-> len, sent |-> <<>>] :
             len \in {n \in ResponseLens : IsEmpty(n)}}
    \cup UNION {{[ret |-> Deliver(selected, interaction, len, replies, failAt, viewOk).ret,
                  output |-> "text", cleaned |-> len,
                  sent |-> Deliver(selected, interaction, len, replies, failAt, viewOk).sent] :
                     replies \in BOOLEAN, failAt \in 0..3, viewOk \in BOOLEAN} :
                 len \in {n \in ResponseLens : ~IsEmpty(n)}}

\* readOk: the read of random_model_enabled succeeds; fails, fail2: exceptions
\* while clients are built for get_random_model and for the cog's manager.
CreateChatResponse ==
    /\ \E interaction \in BOOLEAN :
        \/ /\ resp' = [NoResp EXCEPT !.ret = "raised", !.interaction = interaction]
           /\ UNCHANGED <<activeClient, chatModel, cogCache>>
        \/ \E random_model_enabled \in BOOLEAN, fails \in [1..Len(regenModels) -> BOOLEAN],
              fail2 \in BOOLEAN :
             LET avail == IF random_model_enabled
                          THEN GetAvailableModels(regenModels, {}, fails, 1).avail
                          ELSE <<>>
             IN \E i \in 0..Len(avail) :
                 /\ i = 0 <=> avail = <<>>
                 /\ LET random_model == IF i = 0 THEN NoModel ELSE avail[i]
                        client == i # 0 /\ GetsClient(cogCache, random_model.endpoint, fail2)
                        selected == IF client THEN random_model ELSE NoModel
                        swapped == IF client THEN SwappedClient(CogReg, random_model)
                                   ELSE activeClient
                    IN /\ cogCache' = IF i = 0 THEN cogCache
                                      ELSE CacheAfter(cogCache, random_model.endpoint, fail2)
                       /\ chatModel' = IF client THEN SwappedModel(random_model)
                                       ELSE chatModel
                       /\ activeClient' = OriginalClient(activeClient, swapped)
                       /\ \E d \in Outcomes(selected, interaction) :
                            resp' = [ret |-> d.ret, runs |-> 1, output |-> d.output,
                                     cleaned |-> d.cleaned, sent |-> d.sent,
                                     random |-> selected, interaction |-> interaction,
                                     enabled |-> random_model_enabled,
                                     drawn |-> random_model,
                                     model |-> IF client THEN SwappedModel(random_model)
                                               ELSE chatModel,
                                     client |-> swapped]
    /\ UNCHANGED <<viewVars, msgVars, ctxModel, call, histVars, envVars, chatPc, chatSaved,
                   chatRuns, ledgerVars, cache, adminOp, clients, made, closedClients,
                   regOp, taskVars>>

\* ------------------------------------------------------ regen commands
\* config.regen_models() hands out a copy of the stored list: a command changes
\* the stored list only through config.regen_models.set().

\* Faulty variant: names are compared as written
SameNameExact(m, name) == m.name = name
\* existing_model.get("name", "").lower() == name.lower()
SameName(m, name) == Lower(m.name) = Lower(name)
NameExists(models, name) == \E i \in 1..Len(models) : SameName(models[i], name)

\* Faulty variant: any endpoint is accepted
EndpointAcceptedAny(endpoint) == TRUE
\* if endpoint not in ["openai", "openrouter"]
EndpointAccepted(endpoint) == endpoint \in KnownEndpoints

\* Faulty variant: the defaults of the others stay
ClearDefaultsNone(models) == models
\* for model_config in regen_models: model_config["default"] = False
ClearDefaults(models) == [i \in 1..Len(models) |-> [models[i] EXCEPT !.default = FALSE]]

\* regen_add_model up to the list it stores
AddedList(models, name, model, endpoint, default) ==
    Append(IF default THEN ClearDefaults(models) ELSE models,
           [name |-> name, model |-> model, endpoint |-> endpoint, default |-> default])

\* regen_remove_model: regen_models.pop(i) of the first match
RECURSIVE RemoveFirst(_, _)
RemoveFirst(models, name) ==
    IF models = <<>> THEN <<>>
    ELSE IF SameName(Head(models), name) THEN Tail(models)
    ELSE <<Head(models)>> \o RemoveFirst(Tail(models), name)

\* regen_set_default: the loop over the copy
MarkDefault(models, name) ==
    [i \in 1..Len(models) |-> [models[i] EXCEPT !.default = SameName(models[i], name)]]

\* The replies of a command: the message of its branch and, when that send
\* raises, the failure message of the except-branch.
Replies(first, sendOk) == IF sendOk THEN <<first>> ELSE <<first, "failed">>

\* A command ends: rejected after a warning, or with the list stored, or in the
\* except-branch. A raise of the warning's send runs the except-branch as well.
AdminEnds(name, arg, endpoint, default, outcome, replies) ==
    adminOp' = [name |-> name, arg |-> arg, endpoint |-> endpoint, default |-> default,
                outcome |-> outcome, replies |-> replies]

RegenAddModel ==
    /\ \E name \in AdminNames, endpoint \in AdminEndpoints, default \in BOOLEAN,
          readOk \in BOOLEAN, setOk \in BOOLEAN, sendOk \in BOOLEAN :
        IF ~EndpointAccepted(endpoint)
        THEN /\ AdminEnds("add", name, endpoint, default, "rejected",
                          Replies("warning", sendOk))
             /\ UNCHANGED regenModels
        ELSE IF ~readOk
        THEN /\ AdminEnds("add", name, endpoint, default, "failed", <<"failed">>)
             /\ UNCHANGED regenModels
        ELSE IF NameExists(regenModels, name)
        THEN /\ AdminEnds("add", name, endpoint, default, "rejected",
                          Replies("warning", sendOk))
             /\ UNCHANGED regenModels
        ELSE IF ~setOk
        THEN /\ AdminEnds("add", name, endpoint, default, "failed", <<"failed">>)
             /\ UNCHANGED regenModels
        ELSE /\ AdminEnds("add", name, endpoint, default, "done",
                          Replies("success", sendOk))
             /\ regenModels' = AddedList(regenModels, name, AdminModel, endpoint, default)
    /\ UNCHANGED <<regenVars, hasKey, chatVars, ledgerVars, cache, cogCache, clients, made,
                   closedClients, regOp, resp, taskVars>>

RegenRemoveModel ==
    /\ \E name \in AdminNames, readOk \in BOOLEAN, setOk \in BOOLEAN, sendOk \in BOOLEAN :
        IF ~readOk
        THEN /\ AdminEnds("remove", name, "", FALSE, "failed", <<"failed">>)
             /\ UNCHANGED regenModels
        ELSE IF ~NameExists(regenModels, name)
        THEN /\ AdminEnds("remove", name, "", FALSE, "rejected", Replies("warning", sendOk))
             /\ UNCHANGED regenModels
        ELSE IF ~setOk
        THEN /\ AdminEnds("remove", name, "", FALSE, "failed", <<"failed">>)
             /\ UNCHANGED regenModels
        ELSE /\ AdminEnds("remove", name, "", FALSE, "done", Replies("success", sendOk))
             /\ regenModels' = RemoveFirst(regenModels, name)
    /\ UNCHANGED <<regenVars, hasKey, chatVars, ledgerVars, cache, cogCache, clients, made,
                   closedClients, regOp, resp, taskVars>>

RegenSetDefault ==
    /\ \E name \in AdminNames, readOk \in BOOLEAN, setOk \in BOOLEAN, sendOk \in BOOLEAN :
        IF ~readOk
        THEN /\ AdminEnds("default", name, "", FALSE, "failed", <<"failed">>)
             /\ UNCHANGED regenModels
        ELSE IF ~NameExists(regenModels, name)
        THEN /\ AdminEnds("default", name, "", FALSE, "rejected", Replies("warning", sendOk))
             /\ UNCHANGED regenModels
        ELSE IF ~setOk
        THEN /\ AdminEnds("default", name, "", FALSE, "failed", <<"failed">>)
             /\ UNCHANGED regenModels
        ELSE /\ AdminEnds("default", name, "", FALSE, "done", Replies("success", sendOk))
             /\ regenModels' = MarkDefault(regenModels, name)
    /\ UNCHANGED <<regenVars, hasKey, chatVars, ledgerVars, cache, cogCache, clients, made,
                   closedClients, regOp, resp, taskVars>>

\* --------------------------------------------- EndpointManager, one manager
\* Faulty variant: the dict is not consulted
IsCachedNever(c, endpoint) == FALSE
\* if endpoint in self.clients
IsCached(c, endpoint) == c[endpoint] # Absent

\* Faulty variant: an exception of the construction leaves _create_client
CreateClientUncaught(ep, fail) ==
    IF fail THEN "raise" ELSE IF CanCreate(ep, fail) THEN "client" ELSE "none"
\* _create_client: a client, or None for an unknown endpoint, a missing api_key
\* or an exception
CreateClient(ep, fail) == IF CanCreate(ep, fail) THEN "client" ELSE "none"

\* Faulty variant: None is stored as well
StoredAlways(c, endpoint, client) == [c EXCEPT ![endpoint] = client]
\* if client: self.clients[endpoint] = client
Stored(c, endpoint, client) ==
    IF client # NoneClient THEN [c EXCEPT ![endpoint] = client] ELSE c

\* get_client(endpoint); fail: an exception while the client is built
GetClient ==
    /\ \E endpoint \in AdminEndpoints, fail \in BOOLEAN :
        IF IsCached(clients, endpoint)
        THEN /\ regOp' = [name |-> "get", endpoint |-> endpoint,
                          result |-> clients[endpoint], tried |-> FALSE, raised |-> FALSE]
             /\ UNCHANGED <<clients, made>>
        ELSE LET outcome == CreateClient(endpoint, fail)
                 client == IF outcome = "client" THEN Client(made + 1) ELSE NoneClient
             IN /\ outcome = "client" => made < MaxClients
                /\ made' = IF outcome = "client" THEN made + 1 ELSE made
                /\ IF outcome = "raise"
                   THEN /\ regOp' = [name |-> "get", endpoint |-> endpoint,
                                     result |-> NoneClient, tried |-> TRUE, raised |-> TRUE]
                        /\ UNCHANGED clients
                   ELSE /\ regOp' = [name |-> "get", endpoint |-> endpoint,
                                     result |-> client, tried |-> TRUE, raised |-> FALSE]
                        /\ clients' = Stored(clients, endpoint, client)
    /\ UNCHANGED <<regenVars, envVars, chatVars, ledgerVars, cache, cogCache, adminOp,
                   closedClients, resp, taskVars>>

\* close_all_clients: client.close() of every value that is a client, then
\* self.clients.clear()
CloseAllCached ==
    /\ closedClients' = closedClients \cup
                            {clients[e] : e \in {x \in AdminEndpoints :
                                                   clients[x] \notin {Absent, NoneClient}}}
    /\ clients' = [e \in AdminEndpoints |-> Absent]
    /\ regOp' = [NoRegOp EXCEPT !.name = "close"]
    /\ UNCHANGED <<regenVars, envVars, chatVars, ledgerVars, cache, cogCache, adminOp,
                   made, resp, taskVars>>

\* ------------------------------------ get_client, cut at _create_client
\* the get_client call t moves on with its locals changed to r
GetGoes(t, r) == getTask' = [getTask EXCEPT ![t] = r]

\* get_client(endpoint) up to the first await of _create_client: a cached
\* client is returned at once, an unknown endpoint gives None without an await
GetClientCalled(t) ==
    /\ getTask[t].pc = "idle"
    /\ \E endpoint \in AdminEndpoints :
          IF IsCached(clients, endpoint)
          THEN GetGoes(t, [pc |-> "done", ep |-> endpoint, client |-> clients[endpoint]])
          ELSE IF endpoint \notin KnownEndpoints
          THEN GetGoes(t, [pc |-> "done", ep |-> endpoint, client |-> NoneClient])
          ELSE GetGoes(t, [pc |-> "creating", ep |-> endpoint, client |-> Absent])
    /\ UNCHANGED <<regenVars, envVars, chatVars, ledgerVars, cache, cogCache, soloVars,
                   cleanOp, logTask>>

\* the awaits of _create_client are over: the client is built, or None comes
\* back, and get_client runs on to its return, "if client:
\* self.clients[endpoint] = client"; fail: an exception while the client is built
GetClientCreated(t) ==
    /\ getTask[t].pc = "creating"
    /\ \E fail \in BOOLEAN :
          LET endpoint == getTask[t].ep
              client == IF CreateClient(endpoint, fail) = "client"
                        THEN Client(made + 1) ELSE NoneClient
          IN /\ client # NoneClient => made < MaxClients
             /\ made' = IF client # NoneClient THEN made + 1 ELSE made
             /\ clients' = Stored(clients, endpoint, client)
             /\ GetGoes(t, [pc |-> "done", ep |-> endpoint, client |-> client])
    /\ UNCHANGED <<regenVars, envVars, chatVars, ledgerVars, cache, cogCache, adminOp,
                   closedClients, regOp, resp, cleanOp, logTask>>

\* ------------------------------------------- remove_patterns_from_response
\* Faulty variant: nothing is stripped
StripNone(t) == t
\* str.strip(' \n'): leading and trailing spaces and newlines go
RECURSIVE LStrip(_)
LStrip(t) == IF t # <<>> /\ Head(t) \in {" ", "\n"} THEN LStrip(Tail(t)) ELSE t
RECURSIVE RStrip(_)
RStrip(t) ==
    IF t # <<>> /\ t[Len(t)] \in {" ", "\n"} THEN RStrip(SubSeq(t, 1, Len(t) - 1)) ELSE t
Strip(t) == RStrip(LStrip(t))

\* pattern.sub('', text) of a pattern that matches one character
Sub(pattern, t) == LET Stays(c) == c # pattern.char IN SelectSeq(t, Stays)

\* compile_and_apply under to_thread: the text with the matches removed and
\* stripped, or asyncio.TimeoutError, or the error of re.compile
CompileAndApply(pattern, t) ==
    IF pattern.kind = "matches"
    THEN [raised |-> "", text |-> Strip(Sub(pattern, t))]
    ELSE [raised |-> pattern.kind, text |-> <<>>]

\* Faulty variant: a pattern that fails empties the text
AfterPatternEmptied(r, cleaned) == r.text
\* cleaned = await compile_and_apply(pattern, cleaned), inside try: both
\* except-branches only log, cleaned keeps its value
AfterPattern(r, cleaned) == IF r.raised = "" THEN r.text ELSE cleaned

\* The reads of the pattern list and of the channel history, which may raise
\* out of the call, then cleaned = response.strip(' \n')
RemovePatternsBegin ==
    /\ cleanOp.pc = "called"
    /\ \E ok \in BOOLEAN :
          cleanOp' = IF ok THEN [cleanOp EXCEPT !.pc = "looping",
                                                !.cleaned = Strip(cleanOp.response)]
                     ELSE [cleanOp EXCEPT !.pc = "raised"]
    /\ UNCHANGED <<regenVars, envVars, chatVars, ledgerVars, cache, cogCache, soloVars,
                   logTask, getTask>>

\* one turn of the loop over expanded_patterns
RemovePatternsApply ==
    /\ cleanOp.pc = "looping"
    /\ cleanOp.applied < Len(cleanOp.patterns)
    /\ cleanOp' = [cleanOp EXCEPT
                      !.applied = @ + 1,
                      !.cleaned = AfterPattern(
                                     CompileAndApply(cleanOp.patterns[cleanOp.applied + 1],
                                                     cleanOp.cleaned),
                                     cleanOp.cleaned)]
    /\ UNCHANGED <<regenVars, envVars, chatVars, ledgerVars, cache, cogCache, soloVars,
                   logTask, getTask>>

\* return cleaned
RemovePatternsReturn ==
    /\ cleanOp.pc = "looping"
    /\ cleanOp.applied = Len(cleanOp.patterns)
    /\ cleanOp' = [cleanOp EXCEPT !.pc = "returned"]
    /\ UNCHANGED <<regenVars, envVars, chatVars, ledgerVars, cache, cogCache, soloVars,
                   logTask, getTask>>

\* ------------------------------------------------------------------- Next
\* The steps of regeneration requests. A control's registry keeps every client
\* it handed out, so unless close_all_clients empties it the client lookup of
\* _regenerate_with_model succeeds and the no-client notice is never due.
Regen ==
    \/ \E p \in Calls : Activate(p)
    \/ \E p \in Calls : Select(p)
    \/ \E p \in Calls : Defer(p)
    \/ \E p \in Calls : Acquire(p)
    \/ \E p \in Calls : PipelineReturn(p)
    \/ \E p \in Calls : CleanReturn(p)
    \/ \E p \in Calls : EditContent(p)
    \/ \E p \in Calls : EditView(p)
    \/ \E p \in Calls : SendFinal(p)

Chat == ChatBegin \/ ChatChoose \/ ChatStep

\* Regeneration requests and an initial chat response, interleaved at every await
Next == Regen \/ Chat

Spec == Init /\ [][Next]_vars

\* Regeneration requests on one MessageContext, interleaved at every await
SpecRace == Init /\ [][Regen]_vars

\* One generation call at a time: no regeneration call is in flight while
\* another one is, and at most MaxSeqCalls requests are made; control timeouts
\* and registry shutdown happen at any time.
Solo == Cardinality({p \in Calls : InCall(p)}) + (IF ChatInFlight THEN 1 ELSE 0) <= 1
Started == Cardinality({p \in Calls : pc(p) # "idle"})

NextSeq ==
    \/ Regen /\ Solo' /\ Started' <= MaxSeqCalls
    \/ \E p \in Calls : SendNoClient(p)
    \/ \E v \in ViewIds : OnTimeout(v)
    \/ \E v \in ViewIds : CloseAllClients(v)

SpecSeq == Init /\ [][NextSeq]_vars

\* Reactions handled one at a time on a ledger that starts empty
NextReact ==
    \/ HandleReactionAdd
    \/ \E m \in MessageIds : Track(m)
    \/ Tick
    \/ GetStats

InitReact == InitAnyLedger /\ ratings = EmptyStore

SpecReact == InitReact /\ [][NextReact]_vars

\* The ledger operations, one at a time, on any stored ledger
NextLedger ==
    \/ Tick
    \/ GetStats
    \/ CleanupOldRatings

SpecLedger == InitAnyLedger /\ [][NextLedger]_vars

\* The administrative commands, one at a time, on a list that starts empty
NextAdmin ==
    \/ RegenAddModel
    \/ RegenRemoveModel
    \/ RegenSetDefault

InitAdmin == Init /\ regenModels = <<>> /\ hasKey = KnownEndpoints

SpecAdmin == InitAdmin /\ [][NextAdmin]_vars

\* The calls on one EndpointManager, one at a time
NextRegistry ==
    \/ GetClient
    \/ CloseAllCached

SpecRegistry == Init /\ [][NextRegistry]_vars

\* Initial responses, one call at a time and no regeneration in between
SpecChat == Init /\ [][CreateChatResponse]_vars

\* One remove_patterns_from_response call on any response and pattern list
NextClean ==
    \/ RemovePatternsBegin
    \/ RemovePatternsApply
    \/ RemovePatternsReturn

InitClean ==
    /\ InitButLedger /\ ratings = EmptyStore
    /\ regenModels = <<>> /\ hasKey = KnownEndpoints
    /\ cleanOp \in CleanInputs

SpecClean == InitClean /\ [][NextClean]_vars

\* Reactions and cleanups handled by concurrent tasks on a ledger that starts
\* empty; a task is resumed at each store access
NextLedgerRace ==
    \/ \E t \in Tasks : ReactionArrives(t)
    \/ \E t \in Tasks : CleanupCalled(t)
    \/ \E t \in Tasks : LedgerRead(t)
    \/ \E t \in Tasks : LedgerWrite(t)
    \/ Tick

SpecLedgerRace == InitReact /\ [][NextLedgerRace]_vars

\* get_client calls of concurrent tasks on one EndpointManager, resumed when
\* _create_client comes back, and close_all_clients
NextRegistryRace ==
    \/ \E t \in Tasks : GetClientCalled(t)
    \/ \E t \in Tasks : GetClientCreated(t)
    \/ CloseAllCached

SpecRegistryRace == Init /\ [][NextRegistryRace]_vars

\* ==================================================================== claims

\* C1: a _regenerate_with_model call that is not interleaved with another
\* generation call leaves, when it finishes (success, empty output, filtered
\* output or raise), the model field and the active client at the values they
\* held immediately before the call.
C1_RestoresModelAndClient ==
    [][\A p \in Calls :
          (InCall(p) /\ call'[p].pc = "done") =>
              /\ ctxModel' = call[p].entry.model
              /\ activeClient' = call[p].entry.client]_vars

\* a call that swapped model and client and then raised has returned
C1_Witness ==
    /\ last.outcome = "failed" /\ last.runs = 1 /\ last.edits = 1
    /\ ctxModel = InitModel /\ activeClient = MainClient

\* C2: when regenerations of one MessageContext interleave, the model field,
\* once none of them is between its swap and its restore, is the model the
\* context had before them or a model one of the requests selected.
C2_NoUnselectedModel ==
    (\A p \in Calls : ~InSection(p)) => ctxModel \in {InitModel} \cup requested

\* all requests have returned and the context is left on a requested model
C2_Witness ==
    /\ \A p \in Calls : pc(p) = "done"
    /\ ctxModel # InitModel /\ ctxModel \in requested

\* C3 (refuted): no two generation calls are between swap and restore at once.
C3_SectionsNeverOverlap ==
    /\ \A p, q \in Calls : p # q => ~(InSection(p) /\ InSection(q))
    /\ \A p \in Calls : ~(InSection(p) /\ ChatInSection)

\* C4 (refuted): while the pipeline of an initial response of another
\* MessageContext runs, a regeneration's swap does not replace the active client.
C4_ChatClientUndisturbed ==
    [][\A p \in Calls :
          (chatPc = "inPipeline" /\ pc(p) = "acquiring" /\ call'[p].pc = "inPipeline")
              => activeClient' = activeClient]_vars

\* C5: when the registry returns no client for the chosen alternative's endpoint,
\* the call goes on to the endpoint-unreachable notice without touching model,
\* client, message or controls and without running the pipeline; it then sends
\* that ephemeral notice on the followup channel and returns, having run no
\* pipeline and edited nothing.
C5_NoClientNoEffect ==
    [][\A p \in Calls :
          LET v == call[p].view
              ep == call[p].chosen.endpoint
          IN /\ (pc(p) = "acquiring" /\ call'[p] # call[p] /\ ep \notin cache'[v]) =>
                    /\ call'[p] = [call[p] EXCEPT !.pc = "noClient"]
                    /\ UNCHANGED <<sharedVars, msgVars, viewVars, requested>>
             /\ (pc(p) = "noClient" /\ call'[p] # call[p]) =>
                    /\ call'[p].pc = "done"
                    /\ UNCHANGED <<sharedVars, msgVars, viewVars, requested>>
                    /\ last'.runs = 0 /\ last'.edits = 0
                    /\ \E i \in DOMAIN last'.notices :
                          last'.notices[i] = [kind |-> "endpointUnreachable",
                                              via |-> "followup", ephemeral |-> TRUE]
                    /\ \A i \in DOMAIN last'.notices :
                          last'.notices[i].kind \in {"chooseModel", "endpointUnreachable",
                                                     "error"}]_vars

\* the unreachable-endpoint notice was the end of a request
C5_Witness ==
    /\ last.outcome = "endpointUnreachable" /\ last.runs = 0 /\ last.edits = 0
    /\ msgContent = InitContent /\ ctxModel = InitModel

\* C6: an activation that finds no alternative with a client sends exactly one
\* ephemeral no-alternatives notice, runs no pipeline, edits nothing, and leaves
\* message, controls, model, client and rating ledger as they were.
C6_NoAlternativesNotice ==
    [][\A p \in Calls :
          LET lookupRaised == /\ call'[p].pc = "done" /\ last'.outcome = "propagated"
                              /\ last'.notices = <<>>
              noneAvailable == \A i \in DOMAIN regenModels :
                                  regenModels[i].endpoint \notin cache'[msgView]
          IN (pc(p) = "idle" /\ call'[p] # call[p] /\ noneAvailable /\ ~lookupRaised) =>
                /\ call'[p].pc = "done"
                /\ last'.notices = <<[kind |-> "noAlternatives", via |-> "response",
                                      ephemeral |-> TRUE]>>
                /\ last'.runs = 0 /\ last'.edits = 0
                /\ UNCHANGED <<msgVars, viewVars, sharedVars, ledgerVars>>]_vars

\* alternatives are configured, none is reachable, the notice went out
C6_Witness ==
    /\ last.outcome = "noAlternatives" /\ Len(regenModels) = 2
    /\ Len(last.notices) = 1 /\ msgView = 0 /\ ~viewDisabled[0]

\* C7: an activation that finds exactly one alternative goes straight to the
\* regeneration with it and shows no selection control; one that finds two or
\* more shows a selection control listing each available alternative exactly
\* once, and the regeneration that follows uses a model of that list.
C7_SelectionOnlyWhenSeveral ==
    [][\A p \in Calls :
          LET Cached(m) == m.endpoint \in cache'[msgView]
              avail == SelectSeq(regenModels, Cached)
              lookupRaised == /\ call'[p].pc = "done" /\ last'.outcome = "propagated"
                              /\ last'.notices = <<>>
              activated == pc(p) = "idle" /\ call'[p] # call[p] /\ ~lookupRaised
              choose == [kind |-> "chooseModel", via |-> "response", ephemeral |-> TRUE]
          IN /\ (activated /\ Len(avail) = 1) =>
                    /\ call'[p].pc = "deferring"
                    /\ call'[p].chosen = avail[1]
                    /\ call'[p].notices = <<>> /\ call'[p].options = <<>>
             /\ (activated /\ Len(avail) >= 2) =>
                    \/ /\ call'[p].pc = "selecting"
                       /\ call'[p].notices = <<choose>>
                       /\ DropdownValues(call'[p].options)
                             = [i \in 1..Len(avail) |-> avail[i].name]
                       /\ \A i, j \in 1..Len(avail) :
                             avail[i].name = avail[j].name => i = j
                    \/ /\ call'[p].pc = "done" /\ last'.outcome = "propagated"
                       /\ last'.notices = <<choose>>
             /\ (pc(p) = "selecting" /\ call'[p] # call[p]) =>
                    /\ call'[p].pc = "deferring"
                    /\ \E i \in DOMAIN call[p].options :
                          call'[p].chosen = call[p].options[i]
             /\ (pc(p) = "acquiring" /\ call'[p].pc = "inPipeline") =>
                    /\ ctxModel' = call[p].chosen.model
                    /\ \/ call[p].options = <<>>
                       \/ \E i \in DOMAIN call[p].options :
                             call[p].chosen = call[p].options[i]]_vars

\* a regeneration runs with the second entry of a two-entry selection control
C7_Witness ==
    \E p \in Calls : /\ pc(p) = "inPipeline" /\ Len(call[p].options) = 2
                     /\ call[p].chosen = call[p].options[2]

\* C8: when the pipeline returns nothing, or cleaning leaves nothing, the call
\* sends the failed-to-generate, respectively filtered-out, notice and returns;
\* none of its steps changes the message content, the attached control or a
\* control's stored selection.
C8_EmptyOutputNoEdit ==
    [][\A p \in Calls :
          /\ (\/ pc(p) = "inPipeline" /\ call'[p].pc = "sendFailed"
              \/ pc(p) = "cleaning" /\ call'[p].pc = "sendFiltered") =>
                 UNCHANGED <<msgVars, viewVars>>
          /\ (pc(p) \in {"sendFailed", "sendFiltered"} /\ call'[p] # call[p]) =>
                 /\ call'[p].pc = "done"
                 /\ UNCHANGED <<msgVars, viewVars>>
                 /\ msgContent' = call[p].entry.content
                 /\ last'.edits = 0
                 /\ \E i \in DOMAIN last'.notices :
                       last'.notices[i] =
                          [kind |-> IF pc(p) = "sendFailed" THEN "failedToGenerate"
                                    ELSE "filteredOut",
                           via |-> "followup", ephemeral |-> TRUE]
                 /\ \A i \in DOMAIN last'.notices :
                       last'.notices[i].kind # "success"]_vars

\* a regeneration whose output was filtered away has returned
C8_Witness ==
    /\ last.outcome = "filteredOut" /\ last.runs = 1 /\ last.edits = 0
    /\ msgContent = InitContent

\* C9: a regeneration with model B on a context whose model is A (B # A), once
\* its output is not empty, overwrites the content, attaches a newly built,
\* enabled control whose stored selection is B, sends the success notice, and
\* leaves the context's model field at A.
C9_SuccessAttachesNewControl ==
    [][\A p \in Calls :
          LET B == call[p].chosen
              A == call[p].entry.model
          IN /\ (pc(p) = "editView" /\ call'[p].pc = "sendSuccess" /\ B.model # A) =>
                    /\ msgContent' = call[p].newContent /\ msgContent'.by = B.name
                    /\ msgView' = p /\ p # call[p].view
                    /\ viewState[p] = "built" /\ viewState'[p] = "live"
                    /\ ~viewDisabled'[p]
                    /\ viewSel'[p] = B
             /\ (pc(p) = "sendSuccess" /\ call'[p] # call[p] /\ B.model # A) =>
                    /\ call'[p].pc = "done"
                    /\ \E i \in DOMAIN last'.notices :
                          last'.notices[i] = [kind |-> "success", via |-> "followup",
                                              ephemeral |-> TRUE]
                    /\ msgContent' = call[p].newContent
                    /\ ctxModel' = A /\ A = InitModel]_vars

\* after a successful regeneration with Cee the new control is attached
C9_Witness ==
    /\ last.outcome = "success" /\ last.edits = 2
    /\ msgView \in Calls /\ viewState[msgView] = "live" /\ ~viewDisabled[msgView]
    /\ viewSel[msgView] = ModelCee /\ msgContent.by = ModelCee.name
    /\ ctxModel = InitModel

\* C10 (refuted): the content handed to the content edit never exceeds the
\* platform's message ceiling and carries the whole attribution suffix.
C10_ContentWithinCeiling ==
    \A p \in Calls :
        pc(p) = "editContent" =>
            /\ ContentLen(call[p].newContent) <= MessageCeiling
            /\ call[p].newContent.by = call[p].chosen.name

\* C11 (refuted): a regeneration that ends in Failed leaves the message with the
\* content it had when the regeneration began and without the control this
\* regeneration built.
C11_FailedLeavesMessage ==
    [][\A p \in Calls :
          (InCall(p) /\ call'[p].pc = "done" /\ last'.outcome = "failed") =>
              /\ msgContent' = call[p].entry.content
              /\ msgView' # p]_vars

\* C12 (refuted): no exception leaves the handler of an activation or of a
\* model selection.
C12_NothingPropagates == last.outcome # "propagated"

\* C13: when the inactivity timeout of a control fires, its items become
\* disabled, the message content stays, the attached control is this control
\* or, if the edit failed, the one attached before, and nothing is raised or
\* reported: no request, notice, model, client or stored selection changes.
C13_TimeoutDisablesOnly ==
    [][\A v \in ViewIds :
          (viewState[v] = "live" /\ viewState'[v] = "timedout") =>
              /\ viewDisabled'[v]
              /\ \A w \in ViewIds \ {v} : viewDisabled'[w] = viewDisabled[w]
              /\ msgContent' = msgContent
              /\ msgView' \in {v, msgView}
              /\ UNCHANGED <<viewSel, sharedVars, call, last>>]_vars

\* the first control timed out while idle and the message shows it disabled
C13_Witness ==
    /\ viewState[0] = "timedout" /\ viewDisabled[0] /\ msgView = 0
    /\ \A p \in Calls : pc(p) = "idle"
    /\ msgContent = InitContent

\* C14: a reaction changes the ledger only if its message is tracked, its actor
\* is not the bot and its emoji is one of the ten vocabulary symbols, and then
\* only the entry of its own key; it never changes the tracked-message map. So
\* a record is only ever written for a message that was tracked before.
C14_ReactionWritesOnlyWhenQualified ==
    [][op'.name = "reaction" =>
          LET m == op'.m
              u == op'.u
              e == op'.e
              qualified == /\ m \in DOMAIN tracked /\ u # BotId
                           /\ e \in DOMAIN ReactionSentimentMap
          IN /\ Cardinality(DOMAIN ReactionSentimentMap) = 10
             /\ tracked' = tracked
             /\ ~qualified => ratings' = ratings /\ occurred' = occurred
             /\ ratings' # ratings =>
                   /\ qualified
                   /\ \A k \in DOMAIN ratings'.items :
                         \/ k = m \o "_" \o u \o "_" \o e
                         \/ k \in DOMAIN ratings.items
                            /\ ratings'.items[k] = ratings.items[k]]_vars

\* one reaction was recorded, and the bot's own thumbs-up after it was not
C14_Witness ==
    /\ op.name = "reaction" /\ op.u = BotId /\ op.m = TrackedId /\ op.e = "thumbsup"
    /\ Len(occurred) = 1 /\ Cardinality(DOMAIN ratings.items) = 1

C16_StatsCountReactions ==
    [][(op'.name = "stats" /\ op'.readOk /\ op'.model # "") =>
          LET S == {occurred[i] : i \in DOMAIN occurred}
              Of(e) == Cardinality({t \in S : /\ t[3] = e
                                              /\ tracked[t[1]].model = op'.model
                                              /\ tracked[t[1]].endpoint = op'.endpoint})
          IN /\ op'.result.thumbs_up = Of("thumbsup")
             /\ op'.result.thumbs_down = Of("thumbsdown")
             /\ op'.result.total = Of("thumbsup") + Of("thumbsdown")]_vars

C18_UnparsableKept ==
    [][op'.name = "cleanup" =>
          \A k \in DOMAIN ratings.items :
             (/\ ratings.items[k].isDict
              /\ "timestamp" \in DOMAIN ratings.items[k].d
              /\ ~CanParse(ratings.items[k].d.timestamp)) =>
                 /\ k \in DOMAIN ratings'.items
                 /\ ratings'.items[k] = ratings.items[k]]_vars

\* a cleanup dropped entries and the record with the unparsable timestamp stays
C18_Witness ==
    /\ op.name = "cleanup" /\ op.ok /\ op.kept < op.outOf
    /\ "l3" \in DOMAIN ratings.items

\* C19 (refuted): cleanup_old_ratings keeps every entry that is not a record and
\* every record without a timestamp field.
C19_AnomaliesKept ==
    [][op'.name = "cleanup" =>
          \A k \in DOMAIN ratings.items :
             (\/ ~ratings.items[k].isDict
              \/ "timestamp" \notin DOMAIN ratings.items[k].d) =>
                 k \in DOMAIN ratings'.items]_vars

\* C20 (refuted): among the records with a parseable timestamp t a cleanup whose
\* store accesses succeed removes those with t < now - days and keeps those
\* with t >= now - days.
C20_RemovesStrictlyOlder ==
    [][(op'.name = "cleanup" /\ op'.ok /\ ratings.isDict) =>
          \A k \in DOMAIN ratings.items :
             (/\ ratings.items[k].isDict
              /\ "timestamp" \in DOMAIN ratings.items[k].d
              /\ CanParse(ratings.items[k].d.timestamp)) =>
                 LET t == FromIsoFormat(ratings.items[k].d.timestamp)
                     cutoff == now - op'.days * Day
                 IN /\ t < cutoff => k \notin DOMAIN ratings'.items
                    /\ t >= cutoff => k \in DOMAIN ratings'.items]_vars

\* the positions of the stored list whose entry is the default
Defaults(models) == {i \in 1..Len(models) : models[i].default}
\* the positions of the stored list whose name is the given one, ignoring case
Named(models, name) == {i \in 1..Len(models) : Lower(models[i].name) = Lower(name)}

\* C21: after any sequence of add, remove and set-default commands, rejected
\* and failed ones included, the stored list has at most one default entry, and
\* after a set-default or an add-as-default that stored the list the default
\* entry is exactly the entry the command named.
C21_AtMostOneDefault ==
    /\ Cardinality(Defaults(regenModels)) <= 1
    /\ (/\ adminOp.outcome = "done"
        /\ \/ adminOp.name = "default"
           \/ adminOp.name = "add" /\ adminOp.default)
       => /\ Defaults(regenModels) = Named(regenModels, adminOp.arg)
          /\ Cardinality(Defaults(regenModels)) = 1

\* a set-default stored a list of two entries, and the default is the second
C21_Witness ==
    /\ adminOp.name = "default" /\ adminOp.outcome = "done"
    /\ Len(regenModels) = 2
    /\ ~regenModels[1].default /\ regenModels[2].default

\* the list without its k-th entry
Without(models, k) == SubSeq(models, 1, k - 1) \o SubSeq(models, k + 1, Len(models))

\* C22: starting from the empty list, no two stored entries have names that are
\* equal ignoring case; a remove that stored the list took out exactly the
\* entry whose name matches the argument ignoring case, and a set-default that
\* stored the list made exactly that entry the default and changed nothing
\* else.
C22_NamesUniqueIgnoringCase ==
    [][/\ \A i, j \in 1..Len(regenModels') :
             Lower(regenModels'[i].name) = Lower(regenModels'[j].name) => i = j
       /\ (adminOp'.name = "remove" /\ adminOp'.outcome = "done")
          => \E k \in 1..Len(regenModels) :
                /\ Named(regenModels, adminOp'.arg) = {k}
                /\ regenModels' = Without(regenModels, k)
       /\ (adminOp'.name = "default" /\ adminOp'.outcome = "done")
          => \E k \in 1..Len(regenModels) :
                /\ Named(regenModels, adminOp'.arg) = {k}
                /\ regenModels' = [i \in 1..Len(regenModels) |->
                                      [regenModels[i] EXCEPT !.default = (i = k)]]]_vars

\* a set-default given "bee" stored the list, and the default of the two
\* entries is the second, named "Bee"
C22_Witness ==
    /\ adminOp.name = "default" /\ adminOp.arg = "bee" /\ adminOp.outcome = "done"
    /\ Len(regenModels) = 2
    /\ regenModels[2].name = "Bee" /\ regenModels[2].default

\* the command of the step is one of the rejected kinds: an add with an endpoint
\* outside the known ones, an add of a name the list has, a remove or a
\* set-default of a name the list does not have
RejectedKind ==
    \/ adminOp'.name = "add" /\ adminOp'.endpoint \notin {"openai", "openrouter"}
    \/ adminOp'.name = "add" /\ Named(regenModels, adminOp'.arg) # {}
    \/ adminOp'.name \in {"remove", "default"} /\ Named(regenModels, adminOp'.arg) = {}

\* C23: a rejected administrative command leaves the stored list, default flags
\* included, exactly as it was, and its first reply is the warning; an add with
\* an unknown endpoint is always rejected, the other kinds are rejected whenever
\* the stored list could be read.
C23_RejectedNoSideEffects ==
    [][RejectedKind
       => /\ regenModels' = regenModels
          /\ adminOp'.outcome \in {"rejected", "failed"}
          /\ adminOp'.endpoint \notin {"openai", "openrouter", ""}
             => adminOp'.outcome = "rejected"
          /\ adminOp'.outcome = "rejected" => Head(adminOp'.replies) = "warning"]_vars

\* a set-default naming a missing model was rejected while the list holds a
\* default entry
C23_Witness ==
    /\ adminOp.name = "default" /\ adminOp.outcome = "rejected"
    /\ Named(regenModels, adminOp.arg) = {}
    /\ Defaults(regenModels) # {}

\* the endpoints whose dict entry is a client
CachedEndpoints == {e \in AdminEndpoints : clients[e] \notin {Absent, NoneClient}}

C25_FailureCachesNothing ==
    [][regOp'.name = "get"
       => /\ ~regOp'.raised
          /\ (/\ clients[regOp'.endpoint] = Absent
              /\ \/ regOp'.endpoint \notin {"openai", "openrouter"}
                 \/ regOp'.endpoint \notin hasKey)
             => regOp'.result = NoneClient
          /\ regOp'.result = NoneClient
             => /\ clients' = clients
                /\ clients'[regOp'.endpoint] = Absent
          /\ clients[regOp'.endpoint] = Absent => regOp'.tried]_vars

\* get_client for the unknown endpoint returned None after a try, while the
\* dict holds a client for another endpoint
C25_Witness ==
    /\ regOp.name = "get" /\ regOp.endpoint = "azure"
    /\ regOp.tried /\ regOp.result = NoneClient
    /\ clients["openai"] = Client(1)

\* C26: a create_chat_response call that no other generation call interleaves
\* leaves cog.openai_client, however it ends (a random model swapped in or not,
\* empty output, filtered output, a raise of the pipeline, of the cleaning or
\* of the delivery), at the client that was active when the call began.
C26_ClientRestored ==
    [][resp'.ret # "" => activeClient' = activeClient]_vars

\* a call that swapped a random model in and raised before it delivered
\* anything has ended, and the client is the one the cog set up
C26_Witness ==
    /\ resp.ret = "raised" /\ resp.random # NoModel /\ resp.runs = 1
    /\ resp.sent = <<>>
    /\ activeClient = MainClient

\* C27: after a create_chat_response call that swapped a random model in, the
\* model field of the MessageContext is the value it held before the call.
C27_ModelFieldRestored ==
    [][resp'.random # NoModel => chatModel' = chatModel]_vars

C29_PanelHasControls ==
    \A k \in 1..Len(resp.sent) :
        resp.sent[k].kind = "panel" => resp.sent[k].view = "full"

\* C30: every message create_chat_response delivers as plain text has the
\* lightweight regeneration control attached and is a key of
\* cog.tracked_messages, the condition under which handle_reaction_add records
\* a reaction on it.
C30_PlainTextTracked ==
    \A k \in 1..Len(resp.sent) :
        resp.sent[k].kind = "plain"
           => /\ resp.sent[k].view = "subtle"
              /\ resp.sent[k].id \in DOMAIN tracked

\* C31: in a create_chat_response call that reaches the pipeline, a random
\* model is used only with random-model mode on; it is then a configured model
\* whose endpoint has a key, the cog's manager holds a client for its endpoint,
\* and the pipeline runs with the context's model and the active client swapped
\* to it. With the mode off, nothing drawn or no client for the drawn model the
\* pipeline runs with the model and the client of the call's start, and the
\* manager of the cog is not asked unless a model was drawn.
C31_RandomModelFromAvailable ==
    [][resp'.runs = 1
       => /\ resp'.random # NoModel
             => /\ resp'.enabled
                /\ resp'.random = resp'.drawn
                /\ \E i \in 1..Len(regenModels) : regenModels[i] = resp'.random
                /\ resp'.random.endpoint \in hasKey \cap {"openai", "openrouter"}
                /\ resp'.random.endpoint \in cogCache'
                /\ resp'.model = resp'.random.model
                /\ resp'.client = [reg |-> CogReg, ep |-> resp'.random.endpoint]
          /\ resp'.random = NoModel
             => /\ resp'.model = chatModel /\ resp'.client = activeClient
                /\ chatModel' = chatModel
          /\ ~resp'.enabled => resp'.random = NoModel /\ resp'.drawn = NoModel
          /\ resp'.drawn = NoModel => resp'.random = NoModel /\ cogCache' = cogCache
          /\ (resp'.drawn # NoModel /\ resp'.drawn.endpoint \notin cogCache')
             => resp'.random = NoModel]_vars

\* the second configured model was drawn and swapped in
C31_Witness ==
    /\ resp.runs = 1 /\ resp.enabled
    /\ resp.random = ModelCee
    /\ resp.model = "or/c" /\ resp.client = [reg |-> CogReg, ep |-> "openrouter"]

\* the plain-text messages of the latest call are pieces of the response that
\* follow one another from its first character
PiecesInOrder ==
    \A k \in 1..Len(resp.sent) :
        resp.sent[k].at = (IF k = 1 THEN 0 ELSE resp.sent[k - 1].at + resp.sent[k - 1].len)

\* C32: of a response delivered as plain text, every message sent is at most
\* 2000 characters long and the messages are consecutive pieces of the response
\* from its start; when send_response returned they end at its last character,
\* so that their concatenation is the response; and a response shorter than
\* 2000 characters went out as one message.
C32_PiecesWithinCeiling ==
    (resp.sent # <<>> /\ resp.sent[1].kind = "plain")
    => /\ \A k \in 1..Len(resp.sent) : resp.sent[k].len <= 2000 /\ resp.sent[k].len > 0
       /\ PiecesInOrder
       /\ resp.ret = "true"
          => /\ resp.sent[Len(resp.sent)].at + resp.sent[Len(resp.sent)].len = resp.cleaned
             /\ resp.cleaned < 2000 => Len(resp.sent) = 1

\* a response of 4100 characters went out as three plain messages
C32_Witness ==
    /\ resp.ret = "true" /\ resp.cleaned = 4100
    /\ Len(resp.sent) = 3 /\ resp.sent[3].kind = "plain" /\ resp.sent[3].len = 100

\* leading and trailing characters of the given set removed, nothing else
RECURSIVE Trimmed(_, _)
Trimmed(t, set) ==
    IF t # <<>> /\ Head(t) \in set THEN Trimmed(Tail(t), set)
    ELSE IF t # <<>> /\ t[Len(t)] \in set THEN Trimmed(SubSeq(t, 1, Len(t) - 1), set)
    ELSE t

\* the text neither starts nor ends with a space or a newline
NoOuterBlank(t) == t = <<>> \/ (Head(t) \notin {" ", "\n"} /\ t[Len(t)] \notin {" ", "\n"})

Working(patterns) == LET Ok(q) == q.kind = "matches" IN SelectSeq(patterns, Ok)

\* the text after the patterns of a list, none of which fails, were applied to
\* it in order
RECURSIVE CleanedBy(_, _)
CleanedBy(t, patterns) ==
    IF patterns = <<>> THEN t
    ELSE CleanedBy(Strip(Sub(Head(patterns), t)), Tail(patterns))

\* C34: a pattern whose application times out or raises is skipped: the turn of
\* the loop that meets it leaves the accumulated text as it was and the loop
\* goes on with the next pattern; the call, once in the loop, returns with
\* every pattern gone through, and what it returns is what the list without
\* the failing patterns gives.
C34_FailingPatternSkipped ==
    [][/\ (cleanOp.pc = "looping" /\ cleanOp'.applied = cleanOp.applied + 1)
          => /\ cleanOp'.pc = "looping"
             /\ cleanOp.patterns[cleanOp'.applied].kind \in {"timeout", "error"}
                => cleanOp'.cleaned = cleanOp.cleaned
       /\ cleanOp.pc = "looping" => cleanOp'.pc \in {"looping", "returned"}
       /\ cleanOp'.pc = "returned"
          => /\ cleanOp'.applied = Len(cleanOp'.patterns)
             /\ cleanOp'.cleaned = CleanedBy(Strip(cleanOp'.response),
                                             Working(cleanOp'.patterns))]_vars

\* the call returned after a pattern that timed out and a pattern that
\* matched, the matches of the second removed
C34_Witness ==
    /\ cleanOp.pc = "returned"
    /\ cleanOp.patterns = <<[kind |-> "timeout", char |-> ""],
                            [kind |-> "matches", char |-> "a"]>>
    /\ cleanOp.response = <<"a", "\t", "a">>
    /\ cleanOp.cleaned = <<"\t">>

\* the notices request p sent in the step: those its list gained, the list
\* being handed to last when the handler returns
NewNotices(p) ==
    LET after == IF call'[p].pc = "done" THEN last'.notices ELSE call'[p].notices
    IN SubSeq(after, Len(call[p].notices) + 1, Len(after))

\* C35: every notice of the regeneration flow is ephemeral; a notice goes
\* through the initial-response channel only while the handshake of its
\* interaction has not completed, and at most one does per step; defer is
\* called only while the handshake has not completed and completes it; once
\* the handshake completed every notice, the error notice of the
\* except-branch included, goes through the follow-up channel.
C35_NoticeChannels ==
    [][\A p \in Calls :
         (call'[p] # call[p] /\ call[p].pc \notin {"done", "selecting"})
         => /\ \A k \in 1..Len(NewNotices(p)) :
                  /\ NewNotices(p)[k].ephemeral
                  /\ NewNotices(p)[k].via \in {"response", "followup"}
                  /\ NewNotices(p)[k].via = "response" => ~call[p].respDone
                  /\ call[p].respDone => NewNotices(p)[k].via = "followup"
            /\ Cardinality({k \in 1..Len(NewNotices(p)) :
                               NewNotices(p)[k].via = "response"}) <= 1
            /\ call[p].pc = "deferring"
               => /\ ~call[p].respDone
                  /\ call'[p].pc = "acquiring" => call'[p].respDone
            /\ (call[p].pc = "idle" /\ call'[p].pc = "selecting") => call'[p].respDone]_vars

\* a request that had shown the dropdown and deferred the pick failed, its
\* error notice sent through the follow-up channel
C35_Witness ==
    /\ last.outcome = "failed"
    /\ Len(last.notices) = 2
    /\ last.notices[1] = [kind |-> "chooseModel", via |-> "response", ephemeral |-> TRUE]
    /\ last.notices[2] = [kind |-> "error", via |-> "followup", ephemeral |-> TRUE]
    /\ last.runs = 1

\* C36: once two regeneration requests on the same MessageContext, interleaved
\* in any way, have both completed, the context's model field and the cog's
\* active client are the values they held before the first of them started.
C36_BothRestored ==
    (\A p \in Calls : pc(p) = "done")
    => /\ ctxModel = InitModel
       /\ activeClient = MainClient

\* C37: when the inactivity timeout of a control fires that a successful
\* regeneration has replaced on the message, the message keeps the control it
\* carries, and that control stays as enabled as it was.
C37_SupersededTimeoutHarmless ==
    [][\A v \in ViewIds :
         (viewState[v] = "live" /\ viewState'[v] = "timedout" /\ msgView # v)
         => /\ msgView' = msgView
            /\ viewDisabled'[msgView] = viewDisabled[msgView]]_vars

\* the reaction tasks, and the cleanups that went as far as a cutoff date
ReactionTasks == {t \in Tasks : logTask[t].kind = "log"}
CleanupTasks == {t \in Tasks : logTask[t].kind = "cleanup" /\ logTask[t].pc = "done"}
\* the record of task t is newer than the cutoff date of every cleanup
InsideWindow(t) ==
    \A c \in CleanupTasks :
        FromIsoFormat(logTask[t].data.d.timestamp) > logTask[c].cutoff
OwnKey(t) ==
    \A o \in ReactionTasks \ {t} :
        RatingKey(logTask[o].m, logTask[o].u, logTask[o].e)
            # RatingKey(logTask[t].m, logTask[t].u, logTask[t].e)

\* C38: once concurrent ledger operations (reactions with different composite
\* keys, cleanups) have all finished with no store access failing, the ledger
\* holds the record of every reaction whose timestamp is inside the retention
\* window.
C38_NoRatingLost ==
    (\A t \in Tasks : logTask[t].pc = "done")
    => \A t \in ReactionTasks :
          (OwnKey(t) /\ InsideWindow(t))
          => LET key == RatingKey(logTask[t].m, logTask[t].u, logTask[t].e)
             IN /\ key \in DOMAIN ratings.items
                /\ ratings.items[key] = logTask[t].data

\* the clients created so far, those the dict holds, and those get_client
\* calls obtained for endpoint that were not closed since
CreatedClients == {Client(k) : k \in 1..made}
HeldClients == {clients[e] : e \in AdminEndpoints} \ {Absent, NoneClient}
OpenClients(endpoint) ==
    {getTask[t].client : t \in {x \in Tasks : getTask[x].ep = endpoint}}
        \cap (CreatedClients \ closedClients)

\* C39: under any interleaving of get_client calls on one EndpointManager, no
\* endpoint has two clients created for it that close_all_clients has not
\* closed, and every client created is in the dict or was closed by
\* close_all_clients.
C39_OneClientPerEndpoint ==
    /\ CreatedClients \subseteq HeldClients \cup closedClients
    /\ \A endpoint \in AdminEndpoints : Cardinality(OpenClients(endpoint)) <= 1

====
